---- MODULE Spec2Model ----
(***************************************************************************)
(* State-machine model of GifAnimatorApp (src/app.py): the session state   *)
(* of the GIF viewer, its playback scheduler, preview render cache,        *)
(* directory catalog and the Tk timer queue they run on.                   *)
(*                                                                         *)
(* Every event callback of the application runs to completion on the one   *)
(* Tk event-loop thread, so each callback is one atomic action.            *)
(***************************************************************************)
EXTENDS Integers, Sequences, FiniteSets, TLC

(***************************************************************************)
(* Bounds of the model                                                     *)
(***************************************************************************)
\* Slider values offered to _on_slider_change range over -1 .. MaxSlider,
\* which includes values outside every loaded sequence.
MaxSlider == 3
\* How many cancelled timers the cooperative host may still deliver.
MaxStale == 1
\* Stored frame durations range over MIN_DURATION_MS .. MaxDuration where a
\* property of the delay is stated for every duration.
MaxDuration == 120
\* The notifications and re-renders of one burst of resizes are counted up
\* to MaxBurst.
MaxBurst == 2
\* How often the viewer of the long animation steps backward.
MaxRewinds == 1

(***************************************************************************)
(* Program constants (class attributes of GifAnimatorApp)                  *)
(***************************************************************************)
FRAME_CACHE_LIMIT == 120
MIN_FRAME_DELAY_MS == 30
RESIZE_EPSILON_PX == 2
RESIZE_DEBOUNCE_MS == 80
MIN_DURATION_MS == 20
DEFAULT_DURATION_MS == 100
FALLBACK_WIDTH == 640
FALLBACK_HEIGHT == 480

SORT_OPTIONS == <<"Name (A-Z)", "Name (Z-A)", "Time (Old-New)", "Time (New-Old)">>

\* The speed radio buttons hold 0.5, 1.0 and 2.0; the model stores twice the
\* multiplier so that the value stays an integer.
SpeedValues == {1, 2, 4}

NoPath == "None"
NoTimer == 0
NoPhoto == [frame |-> <<NoPath, 0>>, w |-> 0, h |-> 0]

(***************************************************************************)
(* Arithmetic helpers                                                      *)
(***************************************************************************)
Max(a, b) == IF a >= b THEN a ELSE b
Min(a, b) == IF a <= b THEN a ELSE b
Abs(a) == IF a >= 0 THEN a ELSE -a
Range(s) == {s[i] : i \in 1..Len(s)}

(***************************************************************************)
(* The file system the application is run against.  A name is the sequence *)
(* of its character codes, so that lower-casing, the suffix test and the   *)
(* lexical comparison of refresh_file_list are computed, not assumed.      *)
(* A duration that the decoder does not report is the empty sequence.      *)
(***************************************************************************)
\* "b.gif": three frames, no frame duration, container duration 100.
FileB == [path |-> "d1/b.gif", dir |-> "d1", name |-> <<98, 46, 103, 105, 102>>,
          kind |-> "file", format |-> "GIF", mtime |-> 30, size |-> 3000,
          w |-> 50, h |-> 40, container |-> <<100>>,
          frames |-> << <<>>, <<>>, <<>> >>]
\* "a.gif": two frames with explicit durations 103 and 0, no container duration.
FileA == [path |-> "d1/a.gif", dir |-> "d1", name |-> <<97, 46, 103, 105, 102>>,
          kind |-> "file", format |-> "GIF", mtime |-> 50, size |-> 2000,
          w |-> 200, h |-> 100, container |-> <<>>,
          frames |-> << <<103>>, <<0>> >>]
\* "C.GIF": one frame, container duration 0, frame duration absent.
FileC == [path |-> "d1/C.GIF", dir |-> "d1", name |-> <<67, 46, 71, 73, 70>>,
          kind |-> "file", format |-> "GIF", mtime |-> 10, size |-> 1000,
          w |-> 10, h |-> 10, container |-> <<0>>,
          frames |-> << <<>> >>]
\* "n.txt": a text file.
FileN == [path |-> "d1/n.txt", dir |-> "d1", name |-> <<110, 46, 116, 120, 116>>,
          kind |-> "file", format |-> "TXT", mtime |-> 20, size |-> 10,
          w |-> 0, h |-> 0, container |-> <<>>, frames |-> <<>>]
\* "e.gif": a file with the GIF signature from which no frame is decoded.
FileE == [path |-> "d1/e.gif", dir |-> "d1", name |-> <<101, 46, 103, 105, 102>>,
          kind |-> "file", format |-> "GIF", mtime |-> 40, size |-> 6,
          w |-> 0, h |-> 0, container |-> <<>>, frames |-> <<>>]
\* "s.gif": a sub-directory whose name ends in .gif.
FileS == [path |-> "d1/s.gif", dir |-> "d1", name |-> <<115, 46, 103, 105, 102>>,
          kind |-> "dir", format |-> "", mtime |-> 60, size |-> 0,
          w |-> 0, h |-> 0, container |-> <<>>, frames |-> <<>>]
\* "x.dat": a GIF image under another extension, in a second directory.
FileX == [path |-> "d2/x.dat", dir |-> "d2", name |-> <<120, 46, 100, 97, 116>>,
          kind |-> "file", format |-> "GIF", mtime |-> 70, size |-> 500,
          w |-> 30, h |-> 60, container |-> <<45>>,
          frames |-> << <<>>, <<-5>> >>]
\* "z.gif": a GIF image in a directory that cannot be listed.
FileZ == [path |-> "d3/z.gif", dir |-> "d3", name |-> <<122, 46, 103, 105, 102>>,
          kind |-> "file", format |-> "GIF", mtime |-> 80, size |-> 700,
          w |-> 50, h |-> 40, container |-> <<>>,
          frames |-> << <<60>> >>]

\* "l.gif": an animation of two frames more than the render cache holds.
LongFrameCount == FRAME_CACHE_LIMIT + 2
FileL == [path |-> "d4/l.gif", dir |-> "d4", name |-> <<108, 46, 103, 105, 102>>,
          kind |-> "file", format |-> "GIF", mtime |-> 90, size |-> 9000,
          w |-> 64, h |-> 48, container |-> <<40>>,
          frames |-> [i \in 1..LongFrameCount |-> <<>>]]

\* Directory entries in the order iterdir() yields them.
Listing == [d \in {"d1", "d2", "d3", "d4"} |->
              CASE d = "d1" -> <<FileB, FileN, FileA, FileS, FileE, FileC>>
                [] d = "d2" -> <<FileX>>
                [] d = "d3" -> <<FileZ>>
                [] d = "d4" -> <<FileL>>]
\* Directories on which iterdir() raises (no read permission).
Unlistable == {"d3"}
AllFiles == UNION {Range(Listing[d]) : d \in DOMAIN Listing}
\* A path that names nothing.
MissingPath == "d1/gone.gif"
\* The paths a file dialog or the file tree hands to load_gif in a session
\* on the short animations.
LoadPaths == {f.path : f \in AllFiles \ {FileS, FileL}} \cup {MissingPath}

Exists(path) == \E f \in AllFiles : f.path = path

FileAt(path) == CHOOSE f \in AllFiles : f.path = path

(***************************************************************************)
(* Frame Store: _read_gif_frames                                           *)
(***************************************************************************)
\* info.get("duration", default): the reported value, else the default.
InfoGet(opt, default) == IF opt = <<>> THEN default ELSE opt[1]

\* base_duration = int(img.info.get("duration", 100))
BaseDuration(f) == InfoGet(f.container, DEFAULT_DURATION_MS)

\* The stored duration taken from the container alone.
StoredDurationIgnoresFrame(frameInfo, base) ==
    Max(MIN_DURATION_MS, IF base # 0 THEN base ELSE DEFAULT_DURATION_MS)

\* The duration as the decoder reports it, without max(20, ...).
StoredDurationNoClamp(frameInfo, base) ==
    InfoGet(frameInfo, IF base # 0 THEN base ELSE DEFAULT_DURATION_MS)

\* frame_duration = int(frame.info.get("duration", base_duration or 100));
\* durations.append(max(20, frame_duration))
StoredDuration(frameInfo, base) ==
    Max(MIN_DURATION_MS,
        InfoGet(frameInfo, IF base # 0 THEN base ELSE DEFAULT_DURATION_MS))

\* _read_gif_frames without its check for an empty frame list.
ReadGifFramesNoEmptyCheck(path) ==
    LET f == FileAt(path) IN
    IF f.kind # "file" \/ f.format # "GIF" THEN
        [ok |-> FALSE, error |-> "notgif", frames |-> <<>>, durations |-> <<>>]
    ELSE
        [ok |-> TRUE, error |-> "",
         frames |-> [i \in 1..Len(f.frames) |-> <<path, i - 1>>],
         durations |-> [i \in 1..Len(f.frames) |->
                          StoredDuration(f.frames[i], BaseDuration(f))]]

\* The outcome of _read_gif_frames: Image.open fails on what is no image
\* file, a format other than GIF raises ValueError, and so does an empty
\* frame list; otherwise the frames (each named by its file and position)
\* and their stored durations.
ReadGifFrames(path) ==
    LET f == FileAt(path) IN
    IF f.kind # "file" \/ f.format # "GIF" THEN
        [ok |-> FALSE, error |-> "notgif", frames |-> <<>>, durations |-> <<>>]
    ELSE IF Len(f.frames) = 0 THEN
        [ok |-> FALSE, error |-> "noframes", frames |-> <<>>, durations |-> <<>>]
    ELSE
        [ok |-> TRUE, error |-> "",
         frames |-> [i \in 1..Len(f.frames) |-> <<path, i - 1>>],
         durations |-> [i \in 1..Len(f.frames) |->
                          StoredDuration(f.frames[i], BaseDuration(f))]]

(***************************************************************************)
(* Preview Render Cache: _fit_frame_to_preview, _get_preview_size,         *)
(* _get_or_create_photo                                                    *)
(***************************************************************************)
\* scale = min(width / src_w, height / src_h); target = max(1, int(src * scale)),
\* computed in exact arithmetic.  The bitmap is named by the frame it was
\* rendered from and its dimensions.
FitFrameToPreview(frame, size) ==
    LET f == FileAt(frame[1])
        widthBound == size[1] * f.h <= size[2] * f.w
        tw == IF widthBound THEN size[1] ELSE (f.w * size[2]) \div f.h
        th == IF widthBound THEN (f.h * size[1]) \div f.w ELSE size[2]
    IN  IF f.w <= 0 \/ f.h <= 0
        THEN [frame |-> frame, w |-> f.w, h |-> f.h]
        ELSE [frame |-> frame, w |-> Max(1, tw), h |-> Max(1, th)]

\* winfo_width()/winfo_height() of the image label, or the fallback size
\* while the label is not laid out.
GetPreviewSize(winfo) ==
    IF winfo[1] <= 1 \/ winfo[2] <= 1
    THEN <<FALLBACK_WIDTH, FALLBACK_HEIGHT>>
    ELSE winfo

\* _clear_preview_cache that clears nothing.
ClearPreviewCacheKeeps(cache) == cache

\* _clear_preview_cache
ClearPreviewCache(cache) == <<>>

CacheKeys(cache) == {cache[i].key : i \in 1..Len(cache)}
CacheIndex(cache, key) == CHOOSE i \in 1..Len(cache) : cache[i].key = key
\* move_to_end that leaves the entry where it is.
MoveToEndKeepsPlace(cache, key) == cache

\* OrderedDict.move_to_end(key)
MoveToEnd(cache, key) ==
    LET i == CacheIndex(cache, key) IN
    SubSeq(cache, 1, i - 1) \o SubSeq(cache, i + 1, Len(cache)) \o <<cache[i]>>
\* while len(cache) > FRAME_CACHE_LIMIT: cache.popitem(last=False)
RECURSIVE Evict(_)
Evict(cache) ==
    IF Len(cache) > FRAME_CACHE_LIMIT THEN Evict(Tail(cache)) ELSE cache

\* _get_or_create_photo that returns a cached photo without move_to_end.
GetOrCreatePhotoNoTouch(cache, frames, winfo, frame_index) ==
    LET preview_size == GetPreviewSize(winfo)
        cache_key == <<frame_index, preview_size[1], preview_size[2]>>
    IN  IF cache_key \in CacheKeys(cache)
        THEN [photo |-> cache[CacheIndex(cache, cache_key)].photo,
              cache |-> cache,
              rendered |-> FALSE]
        ELSE LET photo == FitFrameToPreview(frames[frame_index + 1], preview_size)
             IN  [photo |-> photo,
                  cache |-> Evict(Append(cache, [key |-> cache_key, photo |-> photo])),
                  rendered |-> TRUE]

\* _get_or_create_photo that looks the frame up by its index alone.
GetOrCreatePhotoAnySize(cache, frames, winfo, frame_index) ==
    LET preview_size == GetPreviewSize(winfo)
        cache_key == <<frame_index, preview_size[1], preview_size[2]>>
        same == {i \in 1..Len(cache) : cache[i].key[1] = frame_index}
    IN  IF same # {}
        THEN [photo |-> cache[CHOOSE i \in same : TRUE].photo,
              cache |-> cache,
              rendered |-> FALSE]
        ELSE LET photo == FitFrameToPreview(frames[frame_index + 1], preview_size)
             IN  [photo |-> photo,
                  cache |-> Evict(Append(cache, [key |-> cache_key, photo |-> photo])),
                  rendered |-> TRUE]

\* _get_or_create_photo: the photo returned, the cache afterwards, and
\* whether the convert/resize path ran.
GetOrCreatePhoto(cache, frames, winfo, frame_index) ==
    LET preview_size == GetPreviewSize(winfo)
        cache_key == <<frame_index, preview_size[1], preview_size[2]>>
    IN  IF cache_key \in CacheKeys(cache)
        THEN [photo |-> cache[CacheIndex(cache, cache_key)].photo,
              cache |-> MoveToEnd(cache, cache_key),
              rendered |-> FALSE]
        ELSE LET photo == FitFrameToPreview(frames[frame_index + 1], preview_size)
             IN  [photo |-> photo,
                  cache |-> Evict(Append(cache, [key |-> cache_key, photo |-> photo])),
                  rendered |-> TRUE]

\* show_frame that stores the requested index without the upper clamp.
ShowFrameNoClamp(frames, cur_index, cur_photo, cache, winfo, index, force) ==
    LET clamped == Max(0, Min(index, Len(frames) - 1)) IN
    IF Len(frames) = 0 THEN
        [index |-> cur_index, photo |-> cur_photo, cache |-> cache, shown |-> FALSE]
    ELSE IF ~force /\ clamped = cur_index /\ cur_photo # NoPhoto THEN
        [index |-> cur_index, photo |-> cur_photo, cache |-> cache, shown |-> FALSE]
    ELSE
        LET r == GetOrCreatePhoto(cache, frames, winfo, clamped) IN
        [index |-> Max(0, index), photo |-> r.photo, cache |-> r.cache,
         shown |-> TRUE]

\* show_frame(index, force) on a session with frames loaded: the fields it
\* leaves behind.  `shown` tells whether a frame was pushed to the display.
ShowFrame(frames, cur_index, cur_photo, cache, winfo, index, force) ==
    LET clamped == Max(0, Min(index, Len(frames) - 1)) IN
    IF Len(frames) = 0 THEN
        [index |-> cur_index, photo |-> cur_photo, cache |-> cache, shown |-> FALSE]
    ELSE IF ~force /\ clamped = cur_index /\ cur_photo # NoPhoto THEN
        [index |-> cur_index, photo |-> cur_photo, cache |-> cache, shown |-> FALSE]
    ELSE
        LET r == GetOrCreatePhoto(cache, frames, winfo, clamped) IN
        [index |-> clamped, photo |-> r.photo, cache |-> r.cache, shown |-> TRUE]

(***************************************************************************)
(* Playback delay: _schedule_next_frame                                    *)
(***************************************************************************)
\* speed = speed_var.get() or 1.0; delay = int(duration / speed);
\* delay = max(MIN_FRAME_DELAY_MS, delay).  `speed2` is twice the multiplier,
\* and int() of a non-negative quotient is its floor.
\* The delay rounded up instead of truncated.
FrameDelayRoundsUp(duration, speed2) ==
    LET s2 == IF speed2 = 0 THEN 2 ELSE speed2
    IN  Max(MIN_FRAME_DELAY_MS, (2 * duration + s2 - 1) \div s2)

\* The delay without the floor of MIN_FRAME_DELAY_MS.
FrameDelayNoFloor(duration, speed2) ==
    LET s2 == IF speed2 = 0 THEN 2 ELSE speed2
    IN  (2 * duration) \div s2

FrameDelay(duration, speed2) ==
    LET s2 == IF speed2 = 0 THEN 2 ELSE speed2
    IN  Max(MIN_FRAME_DELAY_MS, (2 * duration) \div s2)

(***************************************************************************)
(* Directory Catalog: refresh_file_list                                    *)
(***************************************************************************)
\* str.lower() on a name
Lower(name) == [i \in 1..Len(name) |->
                  IF name[i] >= 65 /\ name[i] <= 90 THEN name[i] + 32 ELSE name[i]]
\* Path.suffix: from the last dot, unless that dot starts or ends the name.
Suffix(name) ==
    LET dots == {i \in 1..Len(name) : name[i] = 46} IN
    IF dots = {} THEN <<>>
    ELSE LET i == CHOOSE d \in dots : \A e \in dots : e <= d IN
         IF i > 1 /\ i < Len(name) THEN SubSeq(name, i, Len(name)) ELSE <<>>
DotGif == <<46, 103, 105, 102>>
\* Python's string order: by code point, a proper prefix first.
LexLess(a, b) ==
    \E k \in 1..(Min(Len(a), Len(b)) + 1) :
        /\ \A j \in 1..(k - 1) : a[j] = b[j]
        /\ IF k > Len(a) THEN k <= Len(b)
           ELSE k <= Len(b) /\ a[k] < b[k]

\* Whether entry x sorts strictly before entry y under sort_key.
Before(sort_key, x, y) ==
    CASE sort_key = "Name (A-Z)" -> LexLess(Lower(x.name), Lower(y.name))
      [] sort_key = "Name (Z-A)" -> LexLess(Lower(y.name), Lower(x.name))
      [] sort_key = "Time (Old-New)" -> x.mtime < y.mtime
      [] sort_key = "Time (New-Old)" -> x.mtime > y.mtime
      [] OTHER -> FALSE

\* list.sort is stable: an entry comes after those that sort strictly before
\* it and after those it ties with that came earlier in the list.
SortRank(sort_key, entries, i) ==
    1 + Cardinality({j \in 1..Len(entries) :
                       \/ Before(sort_key, entries[j], entries[i])
                       \/ /\ ~Before(sort_key, entries[i], entries[j])
                          /\ j < i})
SortEntries(sort_key, entries) ==
    [p \in 1..Len(entries) |->
       entries[CHOOSE i \in 1..Len(entries) : SortRank(sort_key, entries, i) = p]]

\* The test of the scan loop with the suffix compared as it is spelt.
IsGifItemCaseSensitive(item) == item.kind = "file" /\ Suffix(item.name) = DotGif

\* The test of the scan loop: a regular file whose suffix lower-cases to .gif.
IsGifItem(item) == item.kind = "file" /\ Lower(Suffix(item.name)) = DotGif
\* GifEntry(path=item.resolve(), mtime=stat.st_mtime, size=stat.st_size)
ScanEntries(items) ==
    LET kept == SelectSeq(items, IsGifItem) IN
    [i \in 1..Len(kept) |-> [path |-> kept[i].path, name |-> kept[i].name,
                             mtime |-> kept[i].mtime, size |-> kept[i].size]]

\* refresh_file_list for a listable directory: the new gif_entries.
RefreshFileList(directory, sort_key) ==
    SortEntries(sort_key, ScanEntries(Listing[directory]))
\* The file system does not change, so each scan is computed once.
CatalogTable == [d \in DOMAIN Listing, k \in Range(SORT_OPTIONS) |->
                   RefreshFileList(d, k)]

(***************************************************************************)
(* Session state (the fields __init__ sets) and the host around it         *)
(***************************************************************************)
VARIABLES
    current_file,          \* path of the loaded file, or NoPath
    current_directory,     \* its directory, or NoPath
    gif_entries,           \* the catalog: a sequence of entries
    pil_frames,            \* the frame sequence
    frame_durations_ms,    \* the stored durations, index-aligned
    current_frame_index,
    playing,
    playback_after_id,     \* handle of the last playback timer armed, or NoTimer
    resize_after_id,       \* handle of the pending debounce timer, or NoTimer
    preview_render_cache,  \* OrderedDict as a sequence, least recently used first
    preview_size,          \* the viewport size last recorded by a resize
    current_photo,         \* the bitmap on display, or NoPhoto
    speed_var,             \* twice the selected speed multiplier
    sort_var,
    winfo,                 \* the image label's size as winfo_width/height report it
    timers,                \* Tk's pending `after` timers: [id, kind, delay]
    cancelled,             \* per kind: cancelled callbacks the host may still deliver
    staleBudget,           \* late deliveries left to a host that cancels cooperatively
    burst,                 \* where the current burst of <Configure> events stands
    rewindsLeft,           \* steps backward left to the viewer of the long animation
    save,                  \* save_current_frame: whether it waits in the file
                           \* dialog, the name it offered, what it wrote last
    lastOp                 \* the callback that ran last, how it ended, and
                           \* whether playback was on when it started

vars == <<current_file, current_directory, gif_entries, pil_frames,
          frame_durations_ms, current_frame_index, playing, playback_after_id,
          resize_after_id, preview_render_cache, preview_size, current_photo,
          speed_var, sort_var, winfo, timers, cancelled, staleBudget, burst,
          rewindsLeft, save, lastOp>>

fileVars == <<current_file, current_directory, pil_frames, frame_durations_ms>>
displayVars == <<current_frame_index, current_photo, preview_render_cache>>
playbackVars == <<playing, playback_after_id>>
resizeVars == <<resize_after_id, preview_size, winfo>>
hostVars == <<timers, cancelled, staleBudget>>
\* What the model keeps about the user, the clock and the Save dialog; none
\* of the callbacks of the main window reads it.
envVars == <<burst, rewindsLeft, save>>

\* Viewport sizes a <Configure> event reports once the label is laid out:
\* two sizes further apart than the resize tolerance.
ViewSizes == {<<100, 80>>, <<200, 160>>}
\* Sizes a window dragged by a few pixels reports: the second is RESIZE_EPSILON_PX
\* from the first in both dimensions, the third one pixel more than that from
\* the second in width.
DragSizes == {<<100, 80>>, <<102, 82>>, <<105, 80>>}
\* The files opened while the window is dragged: two frames each, of
\* different proportions.
DragPaths == {"d1/a.gif", "d2/x.dat"}

\* A burst of <Configure> events is a run of them in which each arrives less
\* than RESIZE_DEBOUNCE_MS after the one before.  The model keeps, for the
\* burst in progress or the last one over: whether it is in progress (open),
\* its notifications (n) and debounced re-renders (renders) counted up to
\* MaxBurst, which of the two came last, whether the pending debounce timer
\* was armed by the latest notification (fresh), and whether a notification
\* of the burst was absorbed by the tolerance (jitter).
NoBurst == [open |-> FALSE, n |-> 0, renders |-> 0, last |-> "none",
            fresh |-> FALSE, jitter |-> FALSE]

\* save_current_frame between its start and the return of
\* asksaveasfilename (open), the default name it offered as <<file, 1-based
\* frame number>> (offered), the frame that was current when it was invoked
\* (invoked) and the frame it wrote to the destination (written); the last
\* three are empty sequences when there is none.
NoSave == [open |-> FALSE, offered |-> <<>>, invoked |-> <<>>, written |-> <<>>]
\* What asksaveasfilename may return besides "": a PNG and a GIF destination
\* in a writable directory, and a destination that cannot be written.
SavePaths == {"out/f.png", "out/f.gif", "ro/f.png"}
Unwritable == {"ro/f.png"}

(***************************************************************************)
(* Tk's timer queue: root.after and root.after_cancel                      *)
(***************************************************************************)
TimerIds == 1..(MaxStale + 5)
PlaybackTimers == {t \in timers : t.kind = "playback"}
ResizeTimers == {t \in timers : t.kind = "resize"}
IsPending(ts, id) == \E t \in ts : t.id = id
\* An id Tk has not handed out: no pending timer has it and no handle that
\* outlives the call holds it (the caller overwrites the handle of its own kind).
FreshId(ts, held) ==
    CHOOSE n \in TimerIds : ~IsPending(ts, n) /\ n \notin held
\* root.after(delay, callback)
After(ts, id, kind, delay) == ts \cup {[id |-> id, kind |-> kind, delay |-> delay]}
\* root.after_cancel(id): the timer leaves the queue; an id that is no longer
\* pending is ignored.
AfterCancel(ts, id) == {t \in ts : t.id # id}
\* A host that cancels cooperatively may still run the cancelled callback.
NoteCancelled(c, ts, id, kind) ==
    IF IsPending(ts, id) /\ c[kind] < staleBudget
    THEN [c EXCEPT ![kind] = c[kind] + 1]
    ELSE c

(***************************************************************************)
(* Initial state: __init__                                                 *)
(***************************************************************************)
InitSession ==
    /\ current_file = NoPath
    /\ current_directory = NoPath
    /\ gif_entries = <<>>
    /\ pil_frames = <<>>
    /\ frame_durations_ms = <<>>
    /\ current_frame_index = 0
    /\ playing = FALSE
    /\ playback_after_id = NoTimer
    /\ resize_after_id = NoTimer
    /\ preview_render_cache = <<>>
    /\ preview_size = <<0, 0>>
    /\ current_photo = NoPhoto
    /\ speed_var = 2
    /\ sort_var = SORT_OPTIONS[1]
    /\ winfo = <<1, 1>>
    /\ timers = {}
    /\ cancelled = [k \in {"playback", "resize"} |-> 0]
    /\ burst = NoBurst
    /\ save = NoSave
    /\ lastOp = [wasPlaying |-> FALSE, op |-> "init", arg |-> "", out |-> ""]

\* Tk: after_cancel removes the callback for good.
Init == InitSession /\ staleBudget = 0 /\ rewindsLeft = 0

(***************************************************************************)
(* Playback Scheduler: play, pause, _schedule_next_frame, _playback_tick   *)
(***************************************************************************)
\* _schedule_next_frame run before the new frame index is stored.
ScheduleNextFrameOldIndex(ts, held, index) ==
    LET id == FreshId(ts, held)
        delay == FrameDelay(frame_durations_ms[current_frame_index + 1], speed_var)
    IN  [timers |-> After(ts, id, "playback", delay), id |-> id]

\* _schedule_next_frame, called with playing set and frames loaded: the
\* timer queue and the handle after arming for the frame at `index`.
ScheduleNextFrame(ts, held, index) ==
    LET id == FreshId(ts, held)
        delay == FrameDelay(frame_durations_ms[index + 1], speed_var)
    IN  [timers |-> After(ts, id, "playback", delay), id |-> id]

\* play without its `if not self.pil_frames: return`.
PlayBodyNoFrameCheck(op) ==
    IF playing THEN
        /\ lastOp' = [wasPlaying |-> playing, op |-> op, arg |-> "", out |-> "noop"]
        /\ UNCHANGED <<playbackVars, hostVars>>
    ELSE IF pil_frames = <<>> THEN
        \* _schedule_next_frame returns at once
        /\ playing' = TRUE
        /\ lastOp' = [wasPlaying |-> playing, op |-> op, arg |-> "", out |-> "noframes"]
        /\ UNCHANGED <<playback_after_id, hostVars>>
    ELSE
        LET s == ScheduleNextFrame(timers, {resize_after_id},
                                   current_frame_index)
        IN  /\ playing' = TRUE
            /\ timers' = s.timers
            /\ playback_after_id' = s.id
            /\ lastOp' = [wasPlaying |-> playing, op |-> op, arg |-> "", out |-> "armed"]
            /\ UNCHANGED <<cancelled, staleBudget>>

\* play without its `if self.playing: return`.
PlayBodyNoGuard(op) ==
    IF pil_frames = <<>> THEN
        /\ lastOp' = [wasPlaying |-> playing, op |-> op, arg |-> "", out |-> "noframes"]
        /\ UNCHANGED <<playbackVars, hostVars>>
    ELSE
        LET s == ScheduleNextFrame(timers, {resize_after_id}, current_frame_index)
        IN  /\ playing' = TRUE
            /\ timers' = s.timers
            /\ playback_after_id' = s.id
            /\ lastOp' = [wasPlaying |-> playing, op |-> op, arg |-> "",
                          out |-> IF playing THEN "noop" ELSE "armed"]
            /\ UNCHANGED <<cancelled, staleBudget>>

PlayBody(op) ==
    IF pil_frames = <<>> THEN
        /\ lastOp' = [wasPlaying |-> playing, op |-> op, arg |-> "", out |-> "noframes"]
        /\ UNCHANGED <<playbackVars, hostVars>>
    ELSE IF playing THEN
        /\ lastOp' = [wasPlaying |-> playing, op |-> op, arg |-> "", out |-> "noop"]
        /\ UNCHANGED <<playbackVars, hostVars>>
    ELSE
        LET s == ScheduleNextFrame(timers, {resize_after_id},
                                   current_frame_index)
        IN  /\ playing' = TRUE
            /\ timers' = s.timers
            /\ playback_after_id' = s.id
            /\ lastOp' = [wasPlaying |-> playing, op |-> op, arg |-> "", out |-> "armed"]
            /\ UNCHANGED <<cancelled, staleBudget>>

\* pause that clears the flag and the handle but never calls after_cancel.
PauseBodyNoCancel(op) ==
    /\ playing' = FALSE
    /\ playback_after_id' = NoTimer
    /\ lastOp' = [wasPlaying |-> playing, op |-> op, arg |-> "",
                  out |-> IF playing THEN "paused" ELSE "noop"]
    /\ UNCHANGED <<timers, cancelled, staleBudget>>

\* pause that cancels the timer but keeps its handle.
PauseBodyKeepsHandle(op) ==
    /\ playing' = FALSE
    /\ timers' = AfterCancel(timers, playback_after_id)
    /\ lastOp' = [wasPlaying |-> playing, op |-> op, arg |-> "",
                  out |-> IF playing THEN "paused" ELSE "noop"]
    /\ UNCHANGED <<playback_after_id, cancelled, staleBudget>>

PauseBody(op) ==
    /\ playing' = FALSE
    /\ IF playback_after_id # NoTimer
       THEN /\ timers' = AfterCancel(timers, playback_after_id)
            /\ cancelled' = NoteCancelled(cancelled, timers, playback_after_id, "playback")
            /\ playback_after_id' = NoTimer
       ELSE UNCHANGED <<timers, cancelled, playback_after_id>>
    /\ lastOp' = [wasPlaying |-> playing, op |-> op, arg |-> "",
                  out |-> IF playing THEN "paused" ELSE "noop"]
    /\ UNCHANGED staleBudget

Play ==
    /\ PlayBody("play")
    /\ UNCHANGED <<fileVars, displayVars, resizeVars, gif_entries, speed_var, sort_var,
                   envVars>>

Pause ==
    /\ PauseBody("pause")
    /\ UNCHANGED <<fileVars, displayVars, resizeVars, gif_entries, speed_var, sort_var,
                   envVars>>

\* _toggle_play_pause (the space key)
TogglePlayPause ==
    /\ IF playing THEN PauseBody("pause") ELSE PlayBody("play")
    /\ UNCHANGED <<fileVars, displayVars, resizeVars, gif_entries, speed_var, sort_var,
                   envVars>>

\* _playback_tick without its call of _schedule_next_frame.
PlaybackTickNoRearm(ts, op) ==
    IF ~playing \/ pil_frames = <<>> THEN
        /\ timers' = ts
        /\ lastOp' = [wasPlaying |-> playing, op |-> op, arg |-> "", out |-> "ignored"]
        /\ UNCHANGED <<displayVars, playbackVars>>
    ELSE
        LET next_index == (current_frame_index + 1) % Len(pil_frames)
            shown == ShowFrame(pil_frames, current_frame_index, current_photo,
                               preview_render_cache, winfo, next_index, FALSE)
        IN  /\ current_frame_index' = shown.index
            /\ current_photo' = shown.photo
            /\ preview_render_cache' = shown.cache
            /\ timers' = ts
            /\ lastOp' = [wasPlaying |-> playing, op |-> op, arg |-> "", out |-> "advanced"]
            /\ UNCHANGED playbackVars

\* _playback_tick, run with the timer queue `ts` it leaves behind once its
\* own timer is gone.
PlaybackTick(ts, op) ==
    IF ~playing \/ pil_frames = <<>> THEN
        /\ timers' = ts
        /\ lastOp' = [wasPlaying |-> playing, op |-> op, arg |-> "", out |-> "ignored"]
        /\ UNCHANGED <<displayVars, playbackVars>>
    ELSE
        \* show_frame and _schedule_next_frame run once each; their results are
        \* bound here
        LET next_index == (current_frame_index + 1) % Len(pil_frames) IN
        \E shown \in {ShowFrame(pil_frames, current_frame_index, current_photo,
                                preview_render_cache, winfo, next_index, FALSE)} :
        \E s \in {ScheduleNextFrame(ts, {resize_after_id}, shown.index)} :
            /\ current_frame_index' = shown.index
            /\ current_photo' = shown.photo
            /\ preview_render_cache' = shown.cache
            /\ timers' = s.timers
            /\ playback_after_id' = s.id
            /\ lastOp' = [wasPlaying |-> playing, op |-> op, arg |-> "", out |-> "advanced"]
            /\ UNCHANGED playing

\* A pending playback timer expires and Tk runs its callback.
PlaybackFire ==
    \E t \in PlaybackTimers :
        /\ PlaybackTick(timers \ {t}, "tick")
        /\ UNCHANGED <<fileVars, resizeVars, gif_entries, speed_var, sort_var,
                       cancelled, staleBudget, envVars>>

\* A speed radio button is selected.
SetSpeed ==
    \E s \in SpeedValues :
        /\ speed_var' = s
        /\ lastOp' = [wasPlaying |-> playing, op |-> "speed", arg |-> "", out |-> ""]
        /\ UNCHANGED <<fileVars, displayVars, playbackVars, resizeVars, hostVars,
                       gif_entries, sort_var, envVars>>

(***************************************************************************)
(* Manual navigation: step_frame, _on_slider_change                        *)
(***************************************************************************)
\* Navigation that also stops playback.
NavigatePauses(op, index) ==
    LET shown == ShowFrame(pil_frames, current_frame_index, current_photo,
                           preview_render_cache, winfo, index, FALSE)
    IN  /\ current_frame_index' = shown.index
        /\ current_photo' = shown.photo
        /\ preview_render_cache' = shown.cache
        /\ playing' = FALSE
        /\ timers' = AfterCancel(timers, playback_after_id)
        /\ playback_after_id' = NoTimer
        /\ lastOp' = [wasPlaying |-> playing, op |-> op, arg |-> "",
                      out |-> IF ~shown.shown THEN "noop"
                              ELSE IF shown.index # index THEN "clamped"
                              ELSE "shown"]
        /\ UNCHANGED <<fileVars, resizeVars, cancelled, staleBudget,
                       gif_entries, speed_var, sort_var>>

Navigate(op, index) ==
    LET shown == ShowFrame(pil_frames, current_frame_index, current_photo,
                           preview_render_cache, winfo, index, FALSE)
    IN  /\ current_frame_index' = shown.index
        /\ current_photo' = shown.photo
        /\ preview_render_cache' = shown.cache
        /\ lastOp' = [wasPlaying |-> playing, op |-> op, arg |-> "",
                      out |-> IF ~shown.shown THEN "noop"
                              ELSE IF shown.index # index THEN "clamped"
                              ELSE "shown"]
        /\ UNCHANGED <<fileVars, playbackVars, resizeVars, hostVars,
                       gif_entries, speed_var, sort_var>>

\* next_index = (current_frame_index + delta) % len(pil_frames), without the
\* modulo.
StepTargetNoWrap(index, delta, count) == index + delta

\* next_index = (current_frame_index + delta) % len(pil_frames)
StepTarget(index, delta, count) == (index + delta) % count

\* step_frame(delta)
StepFrameBy(delta) ==
    IF pil_frames = <<>>
    THEN Navigate("step", current_frame_index)
    ELSE Navigate("step", StepTarget(current_frame_index, delta, Len(pil_frames)))

\* The Prev / Next buttons and the Left / Right keys.
StepFrame ==
    /\ \E delta \in {-1, 1} : StepFrameBy(delta)
    /\ UNCHANGED envVars

\* The slider reports a value; int(float(value)) is the value itself.
SliderChange ==
    /\ \E value \in -1..MaxSlider : Navigate("scrub", value)
    /\ UNCHANGED envVars

(***************************************************************************)
(* Viewport: _on_preview_resize, _rerender_current_frame                   *)
(***************************************************************************)
\* The tolerance test with < in place of <=.
WithinToleranceStrict(recorded, new_size) ==
    /\ recorded # <<0, 0>>
    /\ Abs(new_size[1] - recorded[1]) < RESIZE_EPSILON_PX
    /\ Abs(new_size[2] - recorded[2]) < RESIZE_EPSILON_PX

\* Whether a <Configure> event of new_size is absorbed as layout jitter.
WithinTolerance(recorded, new_size) ==
    /\ recorded # <<0, 0>>
    /\ Abs(new_size[1] - recorded[1]) <= RESIZE_EPSILON_PX
    /\ Abs(new_size[2] - recorded[2]) <= RESIZE_EPSILON_PX

\* _on_preview_resize that arms the debounce timer without cancelling the
\* pending one.
OnPreviewResizeNoCancel(size) ==
    LET new_size == <<Max(1, size[1]), Max(1, size[2])>> IN
    /\ winfo' = size
    /\ IF WithinTolerance(preview_size, new_size) THEN
           /\ lastOp' = [wasPlaying |-> playing, op |-> "resize", arg |-> "", out |-> "ignored"]
           /\ UNCHANGED <<preview_size, preview_render_cache, resize_after_id,
                          hostVars>>
       ELSE
           LET id == FreshId(timers, {playback_after_id})
           IN  /\ preview_size' = new_size
               /\ preview_render_cache' = ClearPreviewCache(preview_render_cache)
               /\ timers' = After(timers, id, "resize", RESIZE_DEBOUNCE_MS)
               /\ resize_after_id' = id
               /\ lastOp' = [wasPlaying |-> playing, op |-> "resize", arg |-> "", out |-> "armed"]
               /\ UNCHANGED <<cancelled, staleBudget>>
    /\ UNCHANGED <<fileVars, playbackVars, current_frame_index, current_photo,
                   gif_entries, speed_var, sort_var>>

\* _on_preview_resize: the label has taken the size `size` and Tk delivers
\* its <Configure> event.
OnPreviewResize(size) ==
    LET new_size == <<Max(1, size[1]), Max(1, size[2])>> IN
    /\ winfo' = size
    /\ IF WithinTolerance(preview_size, new_size) THEN
           /\ lastOp' = [wasPlaying |-> playing, op |-> "resize", arg |-> "", out |-> "ignored"]
           /\ UNCHANGED <<preview_size, preview_render_cache, resize_after_id,
                          hostVars>>
       ELSE
           LET ts == IF resize_after_id # NoTimer
                     THEN AfterCancel(timers, resize_after_id) ELSE timers
               id == FreshId(ts, {playback_after_id})
           IN  /\ preview_size' = new_size
               /\ preview_render_cache' = ClearPreviewCache(preview_render_cache)
               /\ timers' = After(ts, id, "resize", RESIZE_DEBOUNCE_MS)
               /\ cancelled' = IF resize_after_id # NoTimer
                               THEN NoteCancelled(cancelled, timers,
                                                  resize_after_id, "resize")
                               ELSE cancelled
               /\ resize_after_id' = id
               /\ lastOp' = [wasPlaying |-> playing, op |-> "resize", arg |-> "", out |-> "armed"]
               /\ UNCHANGED staleBudget
    /\ UNCHANGED <<fileVars, playbackVars, current_frame_index, current_photo,
                   gif_entries, speed_var, sort_var>>

\* The window is resized between two sizes far apart.
PreviewResize ==
    /\ \E size \in ViewSizes : OnPreviewResize(size)
    /\ UNCHANGED envVars

\* _rerender_current_frame, run with the timer queue `ts` it leaves behind.
RerenderCurrentFrame(ts, op) ==
    \E shown \in {ShowFrame(pil_frames, current_frame_index, current_photo,
                            preview_render_cache, winfo, current_frame_index, TRUE)} :
        /\ resize_after_id' = NoTimer
        /\ timers' = ts
        /\ current_frame_index' = shown.index
        /\ current_photo' = shown.photo
        /\ preview_render_cache' = shown.cache
        /\ lastOp' = [wasPlaying |-> playing, op |-> op, arg |-> "",
                      out |-> IF shown.shown THEN "shown" ELSE "noframes"]

\* The pending debounce timer expires and Tk runs its callback.
RerenderFire ==
    \E t \in ResizeTimers :
        /\ RerenderCurrentFrame(timers \ {t}, "rerender")
        /\ UNCHANGED <<fileVars, playbackVars, preview_size, winfo, gif_entries,
                       speed_var, sort_var, cancelled, staleBudget, envVars>>

\* The window is dragged: a <Configure> event reports a nearby size other
\* than the one the label had, less than RESIZE_DEBOUNCE_MS after the event
\* before if a burst is in progress.
DragResize ==
    \E size \in DragSizes \ {winfo} :
        LET absorbed == WithinTolerance(preview_size, <<Max(1, size[1]), Max(1, size[2])>>)
        IN  /\ OnPreviewResize(size)
            /\ burst' = [open |-> TRUE,
                         n |-> IF burst.open THEN Min(burst.n + 1, MaxBurst) ELSE 1,
                         renders |-> IF burst.open THEN burst.renders ELSE 0,
                         last |-> "notify",
                         fresh |-> ~absorbed,
                         jitter |-> (burst.open /\ burst.jitter) \/ absorbed]
            /\ UNCHANGED <<rewindsLeft, save>>

\* The debounce timer expires during or after a drag.  A timer armed by the
\* latest notification expires RESIZE_DEBOUNCE_MS after it, which is when the
\* burst is over; an older one may expire before the next notification.
DragRerenderFire ==
    \E t \in ResizeTimers :
        /\ RerenderCurrentFrame(timers \ {t}, "rerender")
        /\ burst' = [burst EXCEPT !.open = ~burst.fresh,
                                  !.renders = Min(burst.renders + 1, MaxBurst),
                                  !.last = "render",
                                  !.fresh = FALSE]
        /\ UNCHANGED <<fileVars, playbackVars, preview_size, winfo, gif_entries,
                       speed_var, sort_var, cancelled, staleBudget, rewindsLeft, save>>

\* RESIZE_DEBOUNCE_MS pass without a <Configure> event: the burst is over.
\* Every debounce timer was armed during the burst and has expired by then.
DragEnds ==
    /\ burst.open
    /\ ResizeTimers = {}
    /\ burst' = [burst EXCEPT !.open = FALSE]
    /\ lastOp' = [wasPlaying |-> playing, op |-> "quiet", arg |-> "", out |-> ""]
    /\ UNCHANGED <<fileVars, displayVars, playbackVars, resizeVars, hostVars,
                   gif_entries, speed_var, sort_var, rewindsLeft, save>>

(***************************************************************************)
(* Catalog and loading: refresh_file_list, load_gif and its callers        *)
(***************************************************************************)
\* gif_entries after refresh_file_list: unchanged when no directory is set
\* or when listing it raises.
RefreshedEntries(directory, sort_key, entries) ==
    IF directory = NoPath \/ directory \in Unlistable
    THEN entries
    ELSE CatalogTable[directory, sort_key]

\* A sort order is picked in the combobox: refresh_file_list.
SortSelected ==
    \E k \in Range(SORT_OPTIONS) :
        /\ sort_var' = k
        /\ gif_entries' = RefreshedEntries(current_directory, k, gif_entries)
        /\ lastOp' = [wasPlaying |-> playing, op |-> "sort", arg |-> "",
                      out |-> IF current_directory \in Unlistable
                              THEN "scanfail" ELSE "ok"]
        /\ UNCHANGED <<fileVars, displayVars, playbackVars, resizeVars, hostVars,
                       speed_var, envVars>>

\* How load_gif(path) ends: the error it reports, "scanfail" when the
\* directory scan raises after the session has been switched, or "ok".
\* The file system does not change, so each file is decoded once.
DecodeTable == [p \in {f.path : f \in AllFiles} |-> ReadGifFrames(p)]

LoadOutcome(path) ==
    IF ~Exists(path) THEN "notfound"
    ELSE LET r == DecodeTable[path] IN
         IF ~r.ok THEN r.error
         ELSE IF FileAt(path).dir \in Unlistable THEN "scanfail"
         ELSE "ok"

LoadGif(op, path) ==
    LET out == LoadOutcome(path) IN
    /\ lastOp' = [wasPlaying |-> playing, op |-> op, arg |-> path, out |-> out]
    /\ IF out \in {"notfound", "notgif", "noframes"} THEN
           UNCHANGED <<fileVars, displayVars, playbackVars, hostVars, gif_entries>>
       ELSE
           LET r == DecodeTable[path]
               shown == ShowFrame(r.frames, 0, current_photo,
                                  ClearPreviewCache(preview_render_cache),
                                  winfo, 0, TRUE)
           IN  \* self.pause()
               /\ playing' = FALSE
               /\ IF playback_after_id # NoTimer
                  THEN /\ timers' = AfterCancel(timers, playback_after_id)
                       /\ cancelled' = NoteCancelled(cancelled, timers,
                                                     playback_after_id, "playback")
                       /\ playback_after_id' = NoTimer
                  ELSE UNCHANGED <<timers, cancelled, playback_after_id>>
               /\ UNCHANGED staleBudget
               /\ current_file' = path
               /\ current_directory' = FileAt(path).dir
               /\ pil_frames' = r.frames
               /\ frame_durations_ms' = r.durations
               \* _clear_preview_cache(); current_frame_index = 0;
               \* show_frame(0, force=True)
               /\ current_frame_index' = shown.index
               /\ current_photo' = shown.photo
               /\ preview_render_cache' = shown.cache
               \* refresh_file_list()
               /\ gif_entries' = RefreshedEntries(FileAt(path).dir, sort_var,
                                                  gif_entries)
    /\ UNCHANGED <<resizeVars, speed_var, sort_var>>

\* select_gif_file: the file dialog returns a path (a cancelled dialog
\* returns none and nothing happens).
SelectGifFile ==
    /\ \E path \in LoadPaths : LoadGif("load", path)
    /\ UNCHANGED envVars

\* select_gif_file with one of the two-frame files picked.
SelectDragFile ==
    /\ \E path \in DragPaths : LoadGif("load", path)
    /\ UNCHANGED envVars

\* select_gif_file with the long animation picked.
SelectLongFile ==
    /\ LoadGif("load", FileL.path)
    /\ UNCHANGED envVars

\* The Right key: step_frame(1).
StepForward ==
    /\ StepFrameBy(1)
    /\ UNCHANGED envVars

\* The Left key: step_frame(-1), as often as the viewer of the long
\* animation steps backward.
StepBackward ==
    /\ rewindsLeft > 0
    /\ rewindsLeft' = rewindsLeft - 1
    /\ UNCHANGED save
    /\ StepFrameBy(-1)
    /\ UNCHANGED <<burst, save>>

\* _on_file_double_click on a row of the file tree.
FileDoubleClick ==
    /\ \E i \in 1..Len(gif_entries) :
          IF current_file # NoPath /\ gif_entries[i].path = current_file
          THEN /\ lastOp' = [wasPlaying |-> playing, op |-> "dblclick",
                             arg |-> gif_entries[i].path, out |-> "same"]
               /\ UNCHANGED <<fileVars, displayVars, playbackVars, resizeVars,
                              hostVars, gif_entries, speed_var, sort_var>>
          ELSE LoadGif("load", gif_entries[i].path)
    /\ UNCHANGED envVars

\* open_adjacent_file that stops at the ends of the list.
AdjacentPathNoWrap(entries, file, offset) ==
    LET all_paths == [i \in 1..Len(entries) |-> entries[i].path] IN
    IF file = NoPath \/ file \notin Range(all_paths) THEN all_paths[1]
    ELSE LET index == CHOOSE i \in 1..Len(all_paths) :
                          /\ all_paths[i] = file
                          /\ \A j \in 1..(i - 1) : all_paths[j] # file
         IN  all_paths[Max(1, Min(Len(all_paths), index + offset))]

\* The path open_adjacent_file(offset) hands to load_gif when the catalog
\* is not empty.  list.index gives the first position; positions count from 0
\* in the code and from 1 here.
AdjacentPath(entries, file, offset) ==
    LET all_paths == [i \in 1..Len(entries) |-> entries[i].path] IN
    IF file = NoPath \/ file \notin Range(all_paths) THEN all_paths[1]
    ELSE LET index == CHOOSE i \in 1..Len(all_paths) :
                          /\ all_paths[i] = file
                          /\ \A j \in 1..(i - 1) : all_paths[j] # file
             next_index == (index - 1 + offset) % Len(all_paths)
         IN  all_paths[next_index + 1]

\* open_adjacent_file(offset)
OpenAdjacent(op, offset) ==
    IF gif_entries = <<>> THEN
        /\ lastOp' = [wasPlaying |-> playing, op |-> op, arg |-> "", out |-> "empty"]
        /\ UNCHANGED <<fileVars, displayVars, playbackVars, resizeVars,
                       hostVars, gif_entries, speed_var, sort_var>>
    ELSE LoadGif(op, AdjacentPath(gif_entries, current_file, offset))

\* The Prev File / Next File buttons.
OpenAdjacentFile ==
    /\ \E offset \in {-1, 1} :
          OpenAdjacent(IF offset = 1 THEN "next" ELSE "prev", offset)
    /\ UNCHANGED envVars

(***************************************************************************)
(* Specifications                                                          *)
(***************************************************************************)
Next ==
    \/ SelectGifFile
    \/ FileDoubleClick
    \/ OpenAdjacentFile
    \/ Play
    \/ Pause
    \/ TogglePlayPause
    \/ PlaybackFire
    \/ SetSpeed
    \/ StepFrame
    \/ SliderChange
    \/ PreviewResize
    \/ RerenderFire

Spec == Init /\ [][Next]_vars

\* The file browser on its own: opening files, walking the catalog and
\* changing the sort order, with playback off and the window as it starts.
NextCatalog ==
    \/ SelectGifFile
    \/ FileDoubleClick
    \/ OpenAdjacentFile
    \/ SortSelected
SpecCatalog == Init /\ [][NextCatalog]_vars

\* The viewer while its window is dragged: files are opened and stepped
\* through between the <Configure> events and the debounced re-renders.
NextDrag ==
    \/ SelectDragFile
    \/ StepFrame
    \/ DragResize
    \/ DragRerenderFire
    \/ DragEnds
SpecDrag == Init /\ [][NextDrag]_vars

(***************************************************************************)
(* Saving a frame: save_current_frame                                      *)
(***************************************************************************)
\* default_name: the stem of the current file and the 1-based frame number.
DefaultName(file, index) == <<file, index + 1>>

\* The frame save_current_frame passes to save(): the one at the index the
\* session holds when the dialog has returned.
FrameToSave(frames, index) == frames[index + 1]

\* The Save button: save_current_frame up to the point where
\* asksaveasfilename waits for the user.  The dialog is modal: until it
\* returns, the main window takes no input, while timers keep firing.
SaveCurrentFrame ==
    /\ ~save.open
    /\ IF pil_frames = <<>> \/ current_file = NoPath THEN
           /\ save' = NoSave
           /\ lastOp' = [wasPlaying |-> playing, op |-> "save", arg |-> "",
                         out |-> "noframe"]
       ELSE
           /\ save' = [open |-> TRUE,
                       offered |-> DefaultName(current_file, current_frame_index),
                       invoked |-> << pil_frames[current_frame_index + 1] >>,
                       written |-> <<>>]
           /\ lastOp' = [wasPlaying |-> playing, op |-> "save", arg |-> "",
                         out |-> "dialog"]
    /\ UNCHANGED <<fileVars, displayVars, playbackVars, resizeVars, hostVars,
                   gif_entries, speed_var, sort_var, burst, rewindsLeft>>

\* asksaveasfilename returns: "" when the user cancels, else the destination.
\* The frame is converted for a .gif destination and written; a failure of
\* either is reported and nothing is written.
SaveDialogReturns ==
    /\ save.open
    /\ \E output \in SavePaths \cup {""} :
          IF output = "" THEN
              /\ save' = [save EXCEPT !.open = FALSE]
              /\ lastOp' = [wasPlaying |-> playing, op |-> "saved", arg |-> output,
                            out |-> "cancelled"]
          ELSE IF output \in Unwritable THEN
              /\ save' = [save EXCEPT !.open = FALSE]
              /\ lastOp' = [wasPlaying |-> playing, op |-> "saved", arg |-> output,
                            out |-> "failed"]
          ELSE
              /\ save' = [save EXCEPT !.open = FALSE,
                                      !.written = << FrameToSave(pil_frames,
                                                                current_frame_index) >>]
              /\ lastOp' = [wasPlaying |-> playing, op |-> "saved", arg |-> output,
                            out |-> "ok"]
    /\ UNCHANGED <<fileVars, displayVars, playbackVars, resizeVars, hostVars,
                   gif_entries, speed_var, sort_var, burst, rewindsLeft>>

\* A session in which frames are saved.  While the Save dialog is open the
\* main window's buttons and keys are out of reach; playback ticks are not.
NextSave ==
    \/ SaveCurrentFrame
    \/ SaveDialogReturns
    \/ PlaybackFire
    \/ ~save.open /\ SelectGifFile
    \/ ~save.open /\ TogglePlayPause
    \/ ~save.open /\ StepFrame
SpecSave == Init /\ [][NextSave]_vars

\* Playback left to run: an animation of three frames, one of a single frame
\* and a missing file are opened, playback is toggled, and steps, scrubs,
\* speed changes and resizes interleave with the ticks.  Tk runs the
\* callback of every timer that stays pending.
LivePaths == {FileB.path, FileC.path, MissingPath}
SelectLiveFile ==
    /\ \E path \in LivePaths : LoadGif("load", path)
    /\ UNCHANGED envVars
NextLive ==
    \/ SelectLiveFile
    \/ TogglePlayPause
    \/ PlaybackFire
    \/ SetSpeed
    \/ StepFrame
    \/ SliderChange
    \/ PreviewResize
    \/ RerenderFire
SpecLive ==
    /\ Init
    /\ [][NextLive]_vars
    /\ WF_vars(PlaybackFire)
    /\ WF_vars(RerenderFire)

\* A session on the long animation: it is opened and stepped through, mostly
\* forward, at the size the label starts with.
InitLong == InitSession /\ staleBudget = 0 /\ rewindsLeft = MaxRewinds
NextLong ==
    \/ SelectLongFile
    \/ StepForward
    \/ StepBackward
SpecLong == InitLong /\ [][NextLong]_vars

(***************************************************************************)
(* A host whose cancellation is cooperative: a callback whose timer was    *)
(* cancelled may still be run, at most MaxStale times in a run.            *)
(***************************************************************************)
InitCoop == InitSession /\ staleBudget = MaxStale /\ rewindsLeft = 0

\* The host runs the callback of a cancelled playback timer.
StalePlaybackFire ==
    /\ cancelled["playback"] > 0
    /\ staleBudget > 0
    /\ cancelled' = [cancelled EXCEPT !["playback"] = @ - 1]
    /\ staleBudget' = staleBudget - 1
    /\ PlaybackTick(timers, "staletick")
    /\ UNCHANGED <<fileVars, resizeVars, gif_entries, speed_var, sort_var, envVars>>

\* The playback scheduler and everything that can interleave with it on a
\* viewport of constant size.
NextCoop ==
    \/ SelectGifFile
    \/ Play
    \/ Pause
    \/ TogglePlayPause
    \/ PlaybackFire
    \/ SetSpeed
    \/ StepFrame
    \/ SliderChange
    \/ StalePlaybackFire
SpecCoop == InitCoop /\ [][NextCoop]_vars

(***************************************************************************)
(* Properties                                                              *)
(***************************************************************************)
\* Every session field; lastOp is the only variable outside it.
session == <<current_file, current_directory, gif_entries, pil_frames,
             frame_durations_ms, current_frame_index, playing, playback_after_id,
             resize_after_id, preview_render_cache, preview_size, current_photo,
             speed_var, sort_var, winfo, timers, cancelled, staleBudget>>

\* C1: whenever a frame sequence is loaded, the current frame index lies in
\* 0 .. frameCount - 1, after every load, step, scrub, tick and re-render.
C1_IndexInRange ==
    pil_frames # <<>> =>
        /\ 0 <= current_frame_index
        /\ current_frame_index < Len(pil_frames)

\* C1 witness: a scrub to a value outside the sequence was clamped onto the
\* last frame while the animation was playing.
C1_Witness ==
    /\ lastOp.op = "scrub"
    /\ lastOp.out = "clamped"
    /\ playing
    /\ Len(pil_frames) = 2
    /\ current_frame_index = 1

\* The callbacks that end in load_gif: the file dialog and a double click,
\* Next File, Prev File.
LoadOps == {"load", "next", "prev"}

\* Whether load_gif(path) has to fail: nothing at the path, a file that is
\* no GIF image, or a GIF image without frames.
LoadMustFail(path) ==
    IF ~Exists(path) THEN TRUE
    ELSE \/ FileAt(path).format # "GIF"
         \/ Len(FileAt(path).frames) = 0

\* C2: a load of a missing path, of a file that is no GIF, or of a GIF
\* without frames reports its error and changes no session field.
C2_FailedLoadKeepsState ==
    [][(lastOp'.op \in LoadOps /\ lastOp'.out # "empty" /\ LoadMustFail(lastOp'.arg)) =>
          /\ UNCHANGED session
          /\ lastOp'.out \in {"notfound", "notgif", "noframes"}
          /\ (lastOp'.out = "notfound") <=> ~Exists(lastOp'.arg)]_vars

\* C2 witness: a load of a GIF without frames failed while another animation
\* was playing, and that animation is still loaded and still playing.
C2_Witness ==
    /\ lastOp.op = "load"
    /\ lastOp.out = "noframes"
    /\ lastOp.wasPlaying
    /\ playing
    /\ PlaybackTimers # {}
    /\ current_file = "d1/a.gif"

\* C3: after a successful load the scheduler is stopped with no playback
\* timer pending, the index is 0, the frames, durations, file and directory
\* are those of the path, the cache holds only the render of the new first
\* frame, and the catalog is the scan of the new directory.
C3_SuccessfulLoad ==
    [][(lastOp'.op \in LoadOps /\ lastOp'.out = "ok") =>
          LET path == lastOp'.arg
              f == FileAt(path)
          IN  /\ ~playing'
              /\ playback_after_id' = NoTimer
              /\ PlaybackTimers' = {}
              /\ current_frame_index' = 0
              /\ current_file' = path
              /\ current_directory' = f.dir
              /\ pil_frames' = [i \in 1..Len(f.frames) |-> <<path, i - 1>>]
              /\ Len(frame_durations_ms') = Len(f.frames)
              /\ Len(preview_render_cache') = 1
              /\ \A i \in 1..Len(preview_render_cache') :
                     /\ preview_render_cache'[i].photo.frame = <<path, 0>>
                     /\ preview_render_cache'[i].key[1] = 0
              /\ gif_entries' = RefreshFileList(f.dir, sort_var')]_vars

\* C3 witness: a successful load that interrupted playback.
C3_Witness ==
    /\ lastOp.op = "load"
    /\ lastOp.out = "ok"
    /\ lastOp.wasPlaying
    /\ ~playing
    /\ timers = {}
    /\ current_file = "d1/b.gif"

\* C4: at most one playback timer is pending in every reachable state.
C4_OnePlaybackTimer == Cardinality(PlaybackTimers) <= 1

\* C4 witness: a tick re-armed the playback timer while a debounce timer
\* was pending, and exactly one playback timer is pending.
C4_Witness ==
    /\ lastOp.op = "tick"
    /\ lastOp.out = "advanced"
    /\ Cardinality(PlaybackTimers) = 1
    /\ ResizeTimers # {}

\* C5: play() with a sequence loaded and playback off sets the playing flag
\* and adds exactly one timer, for the current frame's duration at the
\* current speed; play() while playing changes nothing.
C5_Play ==
    [][(lastOp'.op = "play" /\ pil_frames # <<>>) =>
          IF playing THEN UNCHANGED session
          ELSE /\ playing'
               /\ \E t \in timers' :
                     /\ t \notin timers
                     /\ timers' = timers \cup {t}
                     /\ PlaybackTimers' = {t}
                     /\ t.id = playback_after_id'
                     /\ t.delay = FrameDelay(frame_durations_ms[current_frame_index + 1],
                                             speed_var)
               /\ UNCHANGED <<fileVars, displayVars, resizeVars, gif_entries,
                              speed_var, sort_var>>]_vars

\* C5 witness: play() started playback on the second frame at double speed.
C5_Witness ==
    /\ lastOp.op = "play"
    /\ lastOp.out = "armed"
    /\ ~lastOp.wasPlaying
    /\ playing
    /\ current_frame_index = 1
    /\ speed_var = 4

\* C6: pause() while playing clears the flag, removes the pending playback
\* timer and its handle and leaves everything else, the index included, as it
\* was; pause() while stopped changes nothing.
C6_Pause ==
    [][lastOp'.op = "pause" =>
          IF playing
          THEN /\ ~playing'
               /\ playback_after_id' = NoTimer
               /\ PlaybackTimers' = {}
               /\ timers' = timers \ PlaybackTimers
               /\ UNCHANGED <<fileVars, displayVars, resizeVars, gif_entries,
                              speed_var, sort_var>>
          ELSE UNCHANGED session]_vars

\* C6 witness: pause() stopped playback away from the first frame.
C6_Witness ==
    /\ lastOp.op = "pause"
    /\ lastOp.out = "paused"
    /\ lastOp.wasPlaying
    /\ ~playing
    /\ PlaybackTimers = {}
    /\ current_frame_index = 2

\* C7: a tick while playing moves the index to (index + 1) mod frameCount,
\* puts that frame on display and leaves exactly one playback timer pending,
\* armed for the duration of the new current frame.
C7_Tick ==
    [][(lastOp'.op = "tick" /\ playing /\ pil_frames # <<>>) =>
          /\ current_frame_index' = (current_frame_index + 1) % Len(pil_frames)
          /\ current_photo'.frame = pil_frames[current_frame_index' + 1]
          /\ playing'
          /\ \E t \in timers' :
                /\ PlaybackTimers' = {t}
                /\ t.id = playback_after_id'
                /\ t.delay = FrameDelay(frame_durations_ms[current_frame_index' + 1],
                                        speed_var)
          /\ ResizeTimers' = ResizeTimers]_vars

\* C7 witness: a tick wrapped from the last frame of a three-frame
\* animation to the first.
C7_Witness ==
    /\ lastOp.op = "tick"
    /\ lastOp.out = "advanced"
    /\ Len(pil_frames) = 3
    /\ current_frame_index = 0
    /\ Cardinality(PlaybackTimers) = 1

C9_NavigationKeepsTimer ==
    [][/\ (lastOp'.op \in {"step", "scrub", "speed"} /\ playing) =>
             /\ playing'
             /\ UNCHANGED <<timers, playback_after_id>>
       /\ (lastOp'.op \in {"step", "scrub"} /\ playing) =>
             UNCHANGED <<fileVars, resizeVars, gif_entries, speed_var, sort_var,
                         cancelled, staleBudget>>
       /\ (lastOp'.op = "speed" /\ playing) =>
             UNCHANGED <<fileVars, displayVars, resizeVars, gif_entries, sort_var,
                         cancelled, staleBudget>>
       /\ (lastOp'.op = "tick" /\ playing /\ pil_frames # <<>>) =>
             /\ current_frame_index' = (current_frame_index + 1) % Len(pil_frames)
             /\ \E t \in PlaybackTimers' :
                   /\ t.id = playback_after_id'
                   /\ t.delay = FrameDelay(frame_durations_ms[current_frame_index' + 1],
                                           speed_var)]_vars

\* C9 witness: the speed was changed during playback and the timer in
\* flight still carries the delay of the speed it was armed with.
C9_Witness ==
    /\ lastOp.op = "speed"
    /\ playing
    /\ \E t \in PlaybackTimers :
          /\ t.id = playback_after_id
          /\ t.delay # FrameDelay(frame_durations_ms[current_frame_index + 1],
                                  speed_var)

\* Python's round() of the quotient n / d: to the nearest integer, a tie to
\* the even one.
RoundQuotient(n, d) ==
    LET q == n \div d
        r == n % d
    IN  IF 2 * r < d THEN q
        ELSE IF 2 * r > d THEN q + 1
        ELSE IF q % 2 = 0 THEN q ELSE q + 1

\* The timer that play() or a tick has just armed.
ArmedTimer == CHOOSE t \in PlaybackTimers : t.id = playback_after_id
JustArmed == lastOp.op \in {"play", "tick"} /\ lastOp.out \in {"armed", "advanced"}

\* C10 as stated: every timer armed has the delay
\* max(MIN_FRAME_DELAY_MS, round(duration / speed)).
C10_DelayRounded ==
    JustArmed =>
        ArmedTimer.delay =
            Max(MIN_FRAME_DELAY_MS,
                RoundQuotient(2 * frame_durations_ms[current_frame_index + 1],
                              speed_var))

\* C10 amended: every timer armed has the delay
\* max(MIN_FRAME_DELAY_MS, floor(duration / speed)); durations of 100 ms at
\* speed 2 give 50.
C10_DelayTruncated ==
    JustArmed =>
        /\ ArmedTimer.delay =
               Max(MIN_FRAME_DELAY_MS,
                   (2 * frame_durations_ms[current_frame_index + 1]) \div speed_var)
        /\ (frame_durations_ms[current_frame_index + 1] = 100 /\ speed_var = 4) =>
               ArmedTimer.delay = 50

\* C10 witness: a tick armed the timer for a frame of 103 ms at speed 2, a
\* quotient of 51.5.
C10_Witness ==
    /\ lastOp.op = "tick"
    /\ lastOp.out = "advanced"
    /\ speed_var = 4
    /\ frame_durations_ms[current_frame_index + 1] = 103
    /\ ArmedTimer.delay = 51

\* C11: every pending playback timer has a delay of at least
\* MIN_FRAME_DELAY_MS, and so has the delay computed for every stored
\* duration and every value of the speed variable, 0 (unset) included.
C11_DelayFloor ==
    /\ \A t \in PlaybackTimers : t.delay >= MIN_FRAME_DELAY_MS
    /\ \A d \in MIN_DURATION_MS..MaxDuration : \A s \in SpeedValues \cup {0} :
           FrameDelay(d, s) >= MIN_FRAME_DELAY_MS
    /\ MIN_FRAME_DELAY_MS > 0

\* C11 witness: a tick armed the timer for a frame of 20 ms at speed 2; the
\* quotient is 10 and the delay is the floor.
C11_Witness ==
    /\ lastOp.op = "tick"
    /\ lastOp.out = "advanced"
    /\ speed_var = 4
    /\ frame_durations_ms[current_frame_index + 1] = 20
    /\ ArmedTimer.delay = MIN_FRAME_DELAY_MS

\* The index, display and cache that step_frame(delta) leaves behind when it
\* is run on the index, display and cache `st` of the loaded sequence.
StepOnce(st, delta) ==
    LET r == ShowFrame(pil_frames, st.index, st.photo, st.cache, winfo,
                       StepTarget(st.index, delta, Len(pil_frames)), FALSE)
    IN  [index |-> r.index, photo |-> r.photo, cache |-> r.cache]
RECURSIVE StepTimes(_, _, _)
StepTimes(st, delta, k) ==
    IF k = 0 THEN st ELSE StepTimes(StepOnce(st, delta), delta, k - 1)
Displayed == [index |-> current_frame_index, photo |-> current_photo,
              cache |-> preview_render_cache]

\* C17: from every reachable index of a loaded sequence, frameCount steps
\* forward lead back to that index, so do frameCount steps backward, and so
\* does a step forward followed by a step backward.
C17_WrapAround ==
    pil_frames # <<>> =>
        /\ StepTimes(Displayed, 1, Len(pil_frames)).index = current_frame_index
        /\ StepTimes(Displayed, -1, Len(pil_frames)).index = current_frame_index
        /\ StepOnce(StepOnce(Displayed, 1), -1).index = current_frame_index
        /\ StepOnce(Displayed, 1).index = (current_frame_index + 1) % Len(pil_frames)

\* C17 witness: a step has brought a three-frame animation back to its first
\* frame after every frame was rendered on the way round.
C17_Witness ==
    /\ lastOp.op = "step"
    /\ lastOp.out = "shown"
    /\ Len(pil_frames) = 3
    /\ current_frame_index = 0
    /\ {preview_render_cache[i].key[1] : i \in 1..Len(preview_render_cache)} = {0, 1, 2}

\* C20: with a sequence loaded, the frame list and the duration list have
\* the same length, at least 1, and every stored duration is an integer of
\* at least 20 ms.
C20_DurationsAligned ==
    pil_frames # <<>> =>
        /\ Len(frame_durations_ms) = Len(pil_frames)
        /\ Len(pil_frames) >= 1
        /\ DOMAIN frame_durations_ms = DOMAIN pil_frames
        /\ \A i \in DOMAIN frame_durations_ms :
               /\ frame_durations_ms[i] \in Int
               /\ frame_durations_ms[i] >= MIN_DURATION_MS

\* C20 witness: the loaded file reports no duration for its first frame and
\* -5 ms for its second; 45 (the container's) and 20 are stored.
C20_Witness ==
    /\ current_file = "d2/x.dat"
    /\ Len(pil_frames) = 2
    /\ frame_durations_ms = <<45, 20>>

\* The entry open_adjacent_file(offset) is to select in a catalog of n
\* entries when the current file is its i-th: the neighbour, the first entry
\* past the last and the last entry before the first.
Neighbour(entries, i, offset) ==
    IF i + offset > Len(entries) THEN entries[1]
    ELSE IF i + offset < 1 THEN entries[Len(entries)]
    ELSE entries[i + offset]

\* C18: Next File / Prev File hand to load_gif the entry one position after /
\* before the current file in the catalog as it is ordered, wrapping at both
\* ends; the first entry when the current file is not in the catalog; and do
\* nothing when the catalog is empty.
C18_AdjacentFile ==
    [][lastOp'.op \in {"next", "prev"} =>
          LET offset == IF lastOp'.op = "next" THEN 1 ELSE -1
              here == {i \in 1..Len(gif_entries) : gif_entries[i].path = current_file}
          IN  IF gif_entries = <<>>
              THEN UNCHANGED session /\ lastOp'.out = "empty"
              ELSE /\ lastOp'.out = LoadOutcome(lastOp'.arg)
                   /\ (lastOp'.out = "ok") => current_file' = lastOp'.arg
                   /\ IF here = {}
                      THEN lastOp'.arg = gif_entries[1].path
                      ELSE \A i \in here :
                              lastOp'.arg = Neighbour(gif_entries, i, offset).path]_vars

\* C18 witness: Prev File on the first entry of a four-entry catalog ordered
\* by time has opened the last entry.
C18_Witness ==
    /\ lastOp.op = "prev"
    /\ lastOp.out = "ok"
    /\ sort_var = "Time (Old-New)"
    /\ Len(gif_entries) = 4
    /\ current_file = gif_entries[4].path
    /\ current_file = "d1/a.gif"

\* Whether a name ends in a dot followed by g, i, f in either case, with
\* something before the dot.
EndsInGif(name) ==
    LET n == Len(name) IN
    /\ n > 4
    /\ name[n - 3] = 46
    /\ name[n - 2] \in {71, 103}
    /\ name[n - 1] \in {73, 105}
    /\ name[n] \in {70, 102}

\* Whether the catalog entries x, y may stand in this order under sort_key.
InOrder(sort_key, x, y) ==
    CASE sort_key = "Name (A-Z)" -> ~LexLess(Lower(y.name), Lower(x.name))
      [] sort_key = "Name (Z-A)" -> ~LexLess(Lower(x.name), Lower(y.name))
      [] sort_key = "Time (Old-New)" -> x.mtime <= y.mtime
      [] sort_key = "Time (New-Old)" -> x.mtime >= y.mtime

\* C19: when refresh_file_list has run to its end, the catalog lists each
\* regular file of the directory whose name ends in .gif (in any case) once,
\* with its modification time and size, and nothing else, in the order of
\* the selected sort key.
C19_CatalogRefreshed ==
    [][(\/ lastOp'.op = "sort" /\ lastOp'.out = "ok" /\ current_directory' # NoPath
        \/ lastOp'.op \in LoadOps /\ lastOp'.out = "ok") =>
          LET e == gif_entries'
              wanted == {f \in Range(Listing[current_directory']) :
                            f.kind = "file" /\ EndsInGif(f.name)}
          IN  /\ {e[i].path : i \in 1..Len(e)} = {f.path : f \in wanted}
              /\ Len(e) = Cardinality(wanted)
              /\ \A i \in 1..Len(e) : \E f \in wanted :
                     /\ f.path = e[i].path
                     /\ f.mtime = e[i].mtime
                     /\ f.size = e[i].size
              /\ \A i, j \in 1..Len(e) :
                     i < j => InOrder(sort_var', e[i], e[j])]_vars

\* C19 witness: the catalog of d1 re-sorted by name, descending: e.gif,
\* C.GIF, b.gif, a.gif, without n.txt and the directory s.gif.
C19_Witness ==
    /\ lastOp.op = "sort"
    /\ lastOp.out = "ok"
    /\ sort_var = "Name (Z-A)"
    /\ [i \in 1..Len(gif_entries) |-> gif_entries[i].path]
           = <<"d1/e.gif", "d1/C.GIF", "d1/b.gif", "d1/a.gif">>

\* C14: a <Configure> event whose size is more than RESIZE_EPSILON_PX from
\* the recorded size in width or height, or the first one, empties the
\* cache and records the size; one within the tolerance in both dimensions
\* leaves the cache, the recorded size and the debounce timer as they were.
C14_ResizeTolerance ==
    [][lastOp'.op = "resize" =>
          LET beyond == \/ preview_size = <<0, 0>>
                        \/ Abs(winfo'[1] - preview_size[1]) > 2
                        \/ Abs(winfo'[2] - preview_size[2]) > 2
          IN  IF beyond
              THEN /\ preview_render_cache' = <<>>
                   /\ preview_size' = winfo'
                   /\ lastOp'.out = "armed"
              ELSE /\ UNCHANGED <<preview_render_cache, preview_size,
                                  resize_after_id, timers>>
                   /\ lastOp'.out = "ignored"]_vars

\* C14 witness: an event two pixels off the recorded size in both dimensions
\* was absorbed with two renders in the cache and the debounce timer pending.
C14_Witness ==
    /\ lastOp.op = "resize"
    /\ lastOp.out = "ignored"
    /\ preview_size = <<100, 80>>
    /\ winfo = <<102, 82>>
    /\ Len(preview_render_cache) = 2
    /\ ResizeTimers # {}

\* At most one debounce timer is pending, and resize_after_id is its handle.
OneResizeTimer ==
    /\ Cardinality(ResizeTimers) <= 1
    /\ \A t \in ResizeTimers : t.id = resize_after_id /\ t.delay = RESIZE_DEBOUNCE_MS
    /\ (resize_after_id # NoTimer) => ResizeTimers # {}

\* A debounced re-render has just put the current frame on display, fitted
\* to the size the label has now.
RerenderedAtCurrentSize ==
    (lastOp.op = "rerender" /\ pil_frames # <<>>) =>
        current_photo = FitFrameToPreview(pil_frames[current_frame_index + 1],
                                          GetPreviewSize(winfo))

\* A burst of notifications is over.
BurstOver == ~burst.open /\ burst.n > 0

\* C16 as stated: at most one debounce timer is pending, and every burst of
\* notifications ends with exactly one debounced re-render done, after the
\* last notification and at the size the label has then.
C16_OneRerenderPerBurst ==
    /\ OneResizeTimer
    /\ RerenderedAtCurrentSize
    /\ BurstOver => (burst.renders = 1 /\ burst.last = "render")

\* C16 amended: at most one debounce timer is pending, and every burst in
\* which no notification was absorbed by the tolerance ends with exactly one
\* debounced re-render done, after the last notification and at the size the
\* label has then.
C16_OneRerenderPerArmedBurst ==
    /\ OneResizeTimer
    /\ RerenderedAtCurrentSize
    /\ (BurstOver /\ ~burst.jitter) => (burst.renders = 1 /\ burst.last = "render")

\* C16 witness: a burst of at least two notifications, none absorbed, is over
\* with one re-render done at the final size.
C16_Witness ==
    /\ BurstOver
    /\ ~burst.jitter
    /\ burst.n >= 2
    /\ burst.renders = 1
    /\ lastOp.op = "rerender"
    /\ lastOp.out = "shown"
    /\ winfo = <<105, 80>>
    /\ current_photo = FitFrameToPreview(pil_frames[current_frame_index + 1], winfo)

\* The callbacks that ask the cache for a frame as they find it, and how
\* they end when a frame was put on display.
ShowOps == {"step", "scrub", "tick", "rerender"}
ShownOuts == {"shown", "clamped", "advanced"}

\* C13: when the frame put on display was in the cache under the size the
\* label has, the convert/resize path does not run, the photo displayed is
\* the cached one, the cache holds the same keys and the same photos, that
\* entry is now the most recently used and the others keep their order.
C13_CacheHit ==
    [][(lastOp'.op \in ShowOps /\ lastOp'.out \in ShownOuts) =>
          LET size == GetPreviewSize(winfo')
              key == <<current_frame_index', size[1], size[2]>>
              Other(e) == e.key # key
              before == preview_render_cache
              after == preview_render_cache'
          IN  key \in CacheKeys(before) =>
                 /\ ~GetOrCreatePhoto(before, pil_frames, winfo',
                                      current_frame_index').rendered
                 /\ CacheKeys(after) = CacheKeys(before)
                 /\ Len(after) = Len(before)
                 /\ after[Len(after)].key = key
                 /\ \E i \in 1..Len(before) :
                        /\ before[i].key = key
                        /\ current_photo' = before[i].photo
                        /\ after[Len(after)].photo = before[i].photo
                 /\ SelectSeq(after, Other) = SelectSeq(before, Other)]_vars

\* C13 witness: a step back to the first frame, rendered at load, found it
\* in the cache and made it the most recently used.
C13_Witness ==
    /\ lastOp.op = "step"
    /\ lastOp.out = "shown"
    /\ winfo = <<1, 1>>
    /\ current_frame_index = 0
    /\ [i \in 1..Len(preview_render_cache) |-> preview_render_cache[i].key]
           = << <<1, FALLBACK_WIDTH, FALLBACK_HEIGHT>>, <<0, FALLBACK_WIDTH, FALLBACK_HEIGHT>> >>

\* C15: every cache entry is the render of the loaded sequence's frame at
\* the entry's index for the entry's size; what the cache returns for any
\* frame and size is what an empty cache returns; and the photo on display is
\* a render of the current frame, the one for the label's size whenever a
\* frame has just been put on display.
C15_CacheDerived ==
    /\ \A i \in 1..Len(preview_render_cache) :
           LET e == preview_render_cache[i] IN
           /\ e.key[1] \in 0..(Len(pil_frames) - 1)
           /\ e.photo = FitFrameToPreview(pil_frames[e.key[1] + 1],
                                          <<e.key[2], e.key[3]>>)
    /\ \A idx \in 0..(Len(pil_frames) - 1) : \A size \in DragSizes \cup {<<1, 1>>} :
           GetOrCreatePhoto(preview_render_cache, pil_frames, size, idx).photo
               = GetOrCreatePhoto(<<>>, pil_frames, size, idx).photo
    /\ pil_frames # <<>> =>
           current_photo.frame = pil_frames[current_frame_index + 1]
    /\ (pil_frames # <<>> /\ lastOp.op \in ShowOps \cup LoadOps
           /\ lastOp.out \in ShownOuts \cup {"ok"}) =>
           current_photo = FitFrameToPreview(pil_frames[current_frame_index + 1],
                                             GetPreviewSize(winfo))

\* C15 witness: both frames of the second file opened are cached for two
\* label sizes within the tolerance of each other.
C15_Witness ==
    /\ current_file = "d2/x.dat"
    /\ lastOp.op = "step"
    /\ Len(preview_render_cache) = 4
    /\ {<<e[2], e[3]>> : e \in CacheKeys(preview_render_cache)}
           = {<<100, 80>>, <<102, 82>>}

\* C12: the cache never holds more than 120 entries.  A frame found in the
\* cache becomes the most recently used entry; a frame not found is added as
\* the most recently used one, and when that makes 121 entries, the one
\* removed is the entry that was least recently added or found, all others
\* staying in their order.
C12_LruCache ==
    [][/\ Len(preview_render_cache') <= 120
       /\ (lastOp'.op \in ShowOps /\ lastOp'.out \in ShownOuts) =>
             LET size == GetPreviewSize(winfo')
                 key == <<current_frame_index', size[1], size[2]>>
                 Other(e) == e.key # key
                 before == preview_render_cache
                 after == preview_render_cache'
                 n == Len(after)
             IN  /\ after[n].key = key
                 /\ IF key \in CacheKeys(before)
                    THEN SubSeq(after, 1, n - 1) = SelectSeq(before, Other)
                    ELSE IF Len(before) < 120
                    THEN SubSeq(after, 1, n - 1) = before
                    ELSE /\ n = 120
                         /\ SubSeq(after, 1, n - 1) = Tail(before)
                         /\ before[1].key \notin CacheKeys(after)]_vars

\* C12 witness: the long animation was stepped through, once backward, up
\* to its 121st frame; the cache is full and its first frame, rendered at
\* load, is no longer in it.
C12_Witness ==
    /\ lastOp.op = "step"
    /\ lastOp.out = "shown"
    /\ rewindsLeft = 0
    /\ current_frame_index = 120
    /\ Len(preview_render_cache) = 120
    /\ {k[1] : k \in CacheKeys(preview_render_cache)} = 1..120

\* Durations a decoder may report, on both sides of 0 and of the floor.
DurationSamples == {-MaxDuration, -1, 0, 1, MIN_DURATION_MS - 1, MIN_DURATION_MS,
                    MIN_DURATION_MS + 1, DEFAULT_DURATION_MS, MaxDuration}
\* A duration field: absent, or present with one of the sample values.
DurationFields == {<<>>} \cup {<<v>> : v \in DurationSamples}

\* C21 as stated: the stored duration of a frame is max(20, d), d being the
\* frame's duration if it reports one, else the container's if it reports
\* one, else 100; for every frame of the loaded file and for every
\* combination of absent and present fields.
C21_StoredAsStated ==
    LET Expected(fo, co) ==
            Max(20, IF fo # <<>> THEN fo[1] ELSE IF co # <<>> THEN co[1] ELSE 100)
    IN  /\ \A fo \in DurationFields : \A co \in DurationFields :
               StoredDuration(fo, BaseDuration([container |-> co])) = Expected(fo, co)
        /\ pil_frames # <<>> =>
               \A i \in 1..Len(pil_frames) :
                   frame_durations_ms[i] =
                       Expected(FileAt(current_file).frames[i],
                                FileAt(current_file).container)

\* C21 amended: as above, except that a container duration of 0 counts as
\* absent: d is then 100.
C21_StoredZeroAsAbsent ==
    LET Expected(fo, co) ==
            Max(20, IF fo # <<>> THEN fo[1]
                    ELSE IF co # <<>> /\ co[1] # 0 THEN co[1] ELSE 100)
    IN  /\ \A fo \in DurationFields : \A co \in DurationFields :
               StoredDuration(fo, BaseDuration([container |-> co])) = Expected(fo, co)
        /\ pil_frames # <<>> =>
               \A i \in 1..Len(pil_frames) :
                   frame_durations_ms[i] =
                       Expected(FileAt(current_file).frames[i],
                                FileAt(current_file).container)

\* C21 witness: C.GIF, whose container reports 0 ms and whose frame reports
\* nothing, is loaded with 100 ms stored.
C21_Witness ==
    /\ current_file = "d1/C.GIF"
    /\ FileAt(current_file).container = <<0>>
    /\ FileAt(current_file).frames = << <<>> >>
    /\ frame_durations_ms = <<100>>

\* C23: the playing flag is set exactly when one playback timer is pending,
\* no playback timer is pending while it is clear, it is set only with a
\* sequence loaded, and play() without a sequence leaves it clear.
C23_PlayingIffTimer ==
    /\ playing <=> Cardinality(PlaybackTimers) = 1
    /\ ~playing => PlaybackTimers = {}
    /\ playing => pil_frames # <<>>
    /\ (lastOp.op = "play" /\ lastOp.out = "noframes") =>
           ~playing /\ PlaybackTimers = {} /\ playback_after_id = NoTimer

\* C23 witness: play() or the space key with nothing loaded.
C23_Witness ==
    /\ lastOp.op = "play"
    /\ lastOp.out = "noframes"
    /\ pil_frames = <<>>
    /\ ~playing
    /\ PlaybackTimers = {}

\* The outcomes load_gif and save_current_frame catch and show in an error
\* box; the exception behind "scanfail" leaves load_gif uncaught.
LoadErrorsShown == {"notfound", "notgif", "noframes"}
SaveErrorsShown == {"failed"}
ShownToUser == LoadErrorsShown \cup SaveErrorsShown
\* The outcomes in which a step of a load or of a save raised an error.
ErrorOuts == ShownToUser \cup {"scanfail"}

\* C22: a load or a save in which any step fails (decoding, or rendering
\* and scanning after it, or writing) shows its error to the user and
\* leaves every session field as it was.
C22_ErrorsKeepState ==
    [][(lastOp'.op \in LoadOps \cup {"saved"} /\ lastOp'.out \in ErrorOuts) =>
          /\ UNCHANGED session
          /\ lastOp'.out \in ShownToUser]_vars

\* C25: the frame save_current_frame writes is the one that was current when
\* Save was invoked, which is the one numbered in the default name, whatever
\* ran while the dialog was open; neither the start of the save nor its end
\* changes a session field.
C25_SavedFrameIsOffered ==
    [][/\ (lastOp'.op = "saved" /\ lastOp'.out = "ok") =>
              /\ save'.written = save'.invoked
              /\ save'.written[1] = <<save'.offered[1], save'.offered[2] - 1>>
       /\ lastOp'.op \in {"save", "saved"} => UNCHANGED session]_vars

\* The frame indices of the longest animation left to play.
LiveIndices == 0..(Len(FileB.frames) - 1)
\* Frame i of the loaded sequence is on display.
OnDisplay(i) ==
    /\ i < Len(pil_frames)
    /\ current_frame_index = i
    /\ current_photo.frame = pil_frames[i + 1]
\* A tick leaves a playback timer armed.
TickRearms ==
    [][(lastOp'.op = "tick" /\ lastOp'.out = "advanced") => PlaybackTimers' # {}]_vars

\* C24 as stated: if from some point on playback stays on (no pause, no
\* successful load), every tick re-arms a timer, ticks keep coming, and every
\* frame index of the sequence is displayed again and again, whatever steps,
\* scrubs, speed changes, resizes and failed loads interleave.
C24_EveryFrameShown ==
    /\ TickRearms
    /\ <>[]playing => []<>(lastOp.op = "tick")
    /\ \A i \in LiveIndices :
          <>[](playing /\ i < Len(pil_frames)) => []<>OnDisplay(i)

\* C24 amended: the same, for the frame indices, once steps and scrubs have
\* ceased; ticks keep coming and re-arm whether or not they cease.
C24_EveryFrameShownUnlessNavigated ==
    /\ TickRearms
    /\ <>[]playing => []<>(lastOp.op = "tick")
    /\ \A i \in LiveIndices :
          <>[](playing /\ i < Len(pil_frames) /\ lastOp.op \notin {"step", "scrub"})
              => []<>OnDisplay(i)

\* C24 witness: playing the three-frame animation, a tick put its last frame
\* on display and armed the next timer.
C24_Witness ==
    /\ playing
    /\ lastOp.op = "tick"
    /\ lastOp.out = "advanced"
    /\ current_file = FileB.path
    /\ OnDisplay(2)
    /\ PlaybackTimers # {}

====
